---- MODULE Spec2Model ----
(***************************************************************************)
(* Model of backend/main.py of Fault-Report-Analyzer: the report store     *)
(* (SQLite table "reports"), ingestion (analyze_and_store and its entry    *)
(* points), the latest-per-uploader query, the summary merge and the       *)
(* aggregate upsert (create_latest_aggregate_report).                      *)
(*                                                                         *)
(* Three specifications share the variables:                               *)
(*   Spec      every request handler runs to completion (one action each); *)
(*   SpecConc  two worker processes run handlers statement by statement    *)
(*             against the same database file;                             *)
(*   SpecPure  analyze_rows and merge_summary_items applied to row         *)
(*             sequences drawn from a bounded set.                         *)
(* SpecIngest runs the two ingestion entry points on every upload and      *)
(* path, SpecMerge runs merge_summary_items on summary entries as          *)
(* json.loads can return them from a stored summary, and SpecArchive runs  *)
(* the archive member search on member lists drawn from a bounded set.     *)
(***************************************************************************)
EXTENDS Integers, Sequences, FiniteSets, TLC

(***************************************************************************)
(* Bounds of the model.                                                    *)
(***************************************************************************)
MaxId == 3
MaxClock == 1
MaxRows == 3
MaxEntries == 2
MaxMembers == 3

(***************************************************************************)
(* Values.  Python None / SQL NULL in a text column is the marker NULL, in *)
(* the integer column uploader_uid it is NULL_UID.                         *)
(***************************************************************************)
NULL == "<NULL>"
NULL_UID == -1

REPORT_TYPE_NORMAL == "normal"
REPORT_TYPE_AGGREGATE_LATEST_ALL == "aggregate_latest_all"
AGGREGATE_REPORT_FILENAME == "huizong"
TARGET_ARCHIVE_MEMBER == "alarm_local.csv"
\* the CJK aliases of the source are written in pinyin
OWNER_KEYS == <<"pkgs", "owner", "fuzeren", "chuliren", "zerenren">>
FAULT_KEYS == <<"desc", "fault", "fault_desc", "guzhang", "guzhangmiaoshu", "wentimiaoshu">>
SUPPORTED_EXTENSIONS == {".xlsx", ".xls", ".csv"}
CSV_ENCODINGS == <<"utf-8", "utf-8-sig", "gb18030", "gbk">>
ARCHIVE_SUFFIXES == {".zip", ".tar", ".tar.gz", ".tgz", ".tar.bz2", ".tbz2", ".tar.xz", ".txz"}
DEFAULT_MAX_UPLOAD_SIZE_MB == 500

(***************************************************************************)
(* str.strip() and str.lower() on the strings of the model.                *)
(***************************************************************************)
Strip(s) ==
    CASE s = " netA" -> "netA"
      [] s = " bob" -> "bob"
      [] s = "  " -> ""
      [] OTHER -> s

Lower(s) ==
    CASE s = "NaN" -> "nan"
      [] s = "None" -> "none"
      [] s = "NULL" -> "null"
      [] OTHER -> s

\* clean_text(value, fallback)
clean_text(value, fallback) ==
    IF value = NULL THEN fallback
    ELSE LET text == Strip(value)
         IN  IF text = "" \/ Lower(text) \in {"nan", "none", "null"}
             THEN fallback
             ELSE text

\* pick_value(row, keys, fallback): the first alias whose cleaned value is non-empty
RECURSIVE PickFrom(_, _, _, _)
PickFrom(row, keys, i, fallback) ==
    IF i > Len(keys) THEN fallback
    ELSE IF keys[i] \in DOMAIN row /\ clean_text(row[keys[i]], "") # ""
         THEN clean_text(row[keys[i]], "")
         ELSE PickFrom(row, keys, i + 1, fallback)

pick_value(row, keys, fallback) == PickFrom(row, keys, 1, fallback)

(***************************************************************************)
(* list.sort(key=..., reverse=True): stable, descending.  An element goes  *)
(* after every element already placed whose key is >= its own.             *)
(***************************************************************************)
\* the two sort keys of the source: item["count"] of a fault, item["total"] of an owner
SortKey(item) == IF "count" \in DOMAIN item THEN item.count ELSE item.total

\* the element put last, whatever its key: the list is left in the order it had
InsertDescUnsorted(sorted, x) == Append(sorted, x)

RECURSIVE InsertDesc(_, _)
InsertDesc(sorted, x) ==
    IF sorted = <<>> THEN <<x>>
    ELSE IF SortKey(Head(sorted)) >= SortKey(x)
         THEN <<Head(sorted)>> \o InsertDesc(Tail(sorted), x)
         ELSE <<x>> \o sorted

RECURSIVE SortDescFrom(_, _)
SortDescFrom(s, acc) ==
    IF s = <<>> THEN acc
    ELSE SortDescFrom(Tail(s), InsertDesc(acc, Head(s)))

SortDesc(s) == SortDescFrom(s, <<>>)

RECURSIVE SumCounts(_)
SumCounts(faults) ==
    IF faults = <<>> THEN 0 ELSE Head(faults).count + SumCounts(Tail(faults))

(***************************************************************************)
(* grouped: dict[str, dict[str, int]] with Python's insertion order: a     *)
(* sequence of [owner, faults], faults a sequence of [name, count].        *)
(***************************************************************************)
OwnerIndex(grouped, owner) ==
    IF \E i \in 1..Len(grouped) : grouped[i].owner = owner
    THEN CHOOSE i \in 1..Len(grouped) : grouped[i].owner = owner
    ELSE 0

\* grouped.setdefault(owner, {})
SetDefault(grouped, owner) ==
    IF OwnerIndex(grouped, owner) # 0 THEN grouped
    ELSE Append(grouped, [owner |-> owner, faults |-> <<>>])

\* d[name] = d.get(name, 0) + n
AddCount(faults, name, n) ==
    IF \E i \in 1..Len(faults) : faults[i].name = name
    THEN [i \in 1..Len(faults) |->
            IF faults[i].name = name
            THEN [name |-> name, count |-> faults[i].count + n]
            ELSE faults[i]]
    ELSE Append(faults, [name |-> name, count |-> n])

\* grouped[owner][fault] = grouped[owner].get(fault, 0) + n   (owner is a key)
AddFault(grouped, owner, fault, n) ==
    [i \in 1..Len(grouped) |->
        IF grouped[i].owner = owner
        THEN [owner |-> owner, faults |-> AddCount(grouped[i].faults, fault, n)]
        ELSE grouped[i]]

\* the loop over grouped.items() that sorts the faults and sums them, then the
\* sort of the owners (analyze_rows 415-423, merge_summary_items 451-459)
EmitSummary(grouped) ==
    SortDesc([i \in 1..Len(grouped) |->
                LET faults == SortDesc(grouped[i].faults)
                IN  [owner |-> grouped[i].owner,
                     faults |-> faults,
                     total |-> SumCounts(faults)]])

RECURSIVE GroupRows(_, _)
GroupRows(rows, grouped) ==
    IF rows = <<>> THEN grouped
    ELSE LET owner == pick_value(Head(rows), OWNER_KEYS, "Unknown")
             fault == pick_value(Head(rows), FAULT_KEYS, "Unknown Fault")
         IN  GroupRows(Tail(rows), AddFault(SetDefault(grouped, owner), owner, fault, 1))

\* analyze_rows(rows)
analyze_rows(rows) == EmitSummary(GroupRows(rows, <<>>))

(***************************************************************************)
(* merge_summary_items.  A JSON value that is not an object is the record  *)
(* [nondict |-> TRUE]; dict.get(k) of a missing key is NULL.  A count     *)
(* that is a JSON integer is the field count; any other JSON value of the  *)
(* count is the field count_json, which holds its JSON text.               *)
(***************************************************************************)
IsDict(item) == "nondict" \notin DOMAIN item

Get(item, key) == IF key \in DOMAIN item THEN item[key] ELSE NULL

\* every entry counted once, whatever its count
CountOfOne(fault_item) == 1

\* int(value) of a count that is not a JSON integer: int("3") is 3; int(None)
\* raises TypeError and int("x") raises ValueError, both caught by "continue",
\* which is also what a count of 0 comes to
IntOfJson(text) ==
    CASE text = "\"3\"" -> 3
      [] OTHER -> 0

\* int(float("inf")) raises OverflowError, which line 445 does not catch
IntRaises(fault_item) ==
    /\ "count" \notin DOMAIN fault_item
    /\ "count_json" \in DOMAIN fault_item
    /\ fault_item.count_json \in {"Infinity", "-Infinity"}

\* int(fault_item.get("count", 0)), 0 where the item is skipped by the except clause
CountOf(fault_item) ==
    IF "count" \in DOMAIN fault_item THEN fault_item.count
    ELSE IF "count_json" \in DOMAIN fault_item THEN IntOfJson(fault_item.count_json)
    ELSE 0

RECURSIVE MergeFaults(_, _, _)
MergeFaults(faults, owner, grouped) ==
    IF faults = <<>> THEN grouped
    ELSE LET fault_item == Head(faults)
         IN  IF ~IsDict(fault_item)
             THEN MergeFaults(Tail(faults), owner, grouped)
             ELSE LET fault_name == clean_text(Get(fault_item, "name"), "Unknown Fault")
                      count == CountOf(fault_item)
                  IN  IF count <= 0
                      THEN MergeFaults(Tail(faults), owner, grouped)
                      ELSE MergeFaults(Tail(faults), owner,
                                       AddFault(grouped, owner, fault_name, count))

RECURSIVE MergeItems(_, _)
MergeItems(items, grouped) ==
    IF items = <<>> THEN grouped
    ELSE LET summary_item == Head(items)
         IN  IF ~IsDict(summary_item)
             THEN MergeItems(Tail(items), grouped)
             ELSE LET owner == clean_text(Get(summary_item, "owner"), "Unknown")
                      g1 == SetDefault(grouped, owner)
                  IN  IF "faults" \notin DOMAIN summary_item
                      THEN MergeItems(Tail(items), g1)
                      ELSE MergeItems(Tail(items),
                                      MergeFaults(summary_item.faults, owner, g1))

\* merge_summary_items(summary_items)
merge_summary_items(summary_items) == EmitSummary(MergeItems(summary_items, <<>>))

\* merge_summary_items(summary_items) leaves by the exception of line 444: the loops
\* come to a fault item whose count int() cannot convert and except does not catch
merge_raises(summary_items) ==
    \E i \in 1..Len(summary_items) :
       /\ IsDict(summary_items[i])
       /\ "faults" \in DOMAIN summary_items[i]
       /\ \E j \in 1..Len(summary_items[i].faults) :
             /\ IsDict(summary_items[i].faults[j])
             /\ IntRaises(summary_items[i].faults[j])

(***************************************************************************)
(* The rows, file contents and uploads the handlers are given.             *)
(***************************************************************************)
RowA == [pkgs |-> "netA", desc |-> "timeout"]
RowB == [owner |-> " netA", fault |-> "crash"]
RowC == [pkgs |-> "  ", zerenren |-> "teamB", desc |-> "timeout"]
RowD == [pkgs |-> "NaN", fault_desc |-> "NULL"]
RowE == [station |-> "S1"]
RowSet == {RowA, RowB, RowC, RowD}

\* summary entries as json.loads returns them from a stored summary
NotAnObject == [nondict |-> TRUE]
EntryNoFaults == [owner |-> "netA"]
EntryZeroCount == [owner |-> "teamB", faults |-> <<[name |-> "crash", count |-> 0]>>]
EntryNegative == [owner |-> "netA", faults |-> <<[name |-> "timeout", count |-> -1],
                                                 [name |-> "crash", count |-> 2]>>]
EntryBadCounts == [owner |-> " netA",
                   faults |-> <<[name |-> "timeout", count_json |-> "\"x\""],
                                [name |-> "timeout", count_json |-> "\"3\""],
                                [name |-> "crash", count_json |-> "null"],
                                NotAnObject>>]
EntryNoNames == [faults |-> <<[name |-> "NULL", count |-> 1], [count |-> 4], [name |-> "crash"]>>]
EntryGood == [owner |-> "teamB", faults |-> <<[name |-> "crash", count |-> 1],
                                              [name |-> "timeout", count |-> 5]>>,
              total |-> 6]
EntryInfinity == [owner |-> "netA", faults |-> <<[name |-> "crash", count |-> 1],
                                                 [name |-> "timeout", count_json |-> "Infinity"]>>]
EntrySet == {NotAnObject, EntryNoFaults, EntryZeroCount, EntryNegative, EntryBadCounts,
             EntryNoNames, EntryGood, EntryInfinity}

\* what pd.read_csv makes of the bytes under one encoding
Decoded(rows) == [ok |-> TRUE, rows |-> rows]
Undecodable == [ok |-> FALSE]

CsvUtf8 == [kind |-> "csv",
            decoded |-> <<Decoded(<<RowA, RowB, RowA>>), Decoded(<<RowA, RowB, RowA>>),
                          Decoded(<<RowA, RowB, RowA>>), Decoded(<<RowA, RowB, RowA>>)>>]
CsvGbk == [kind |-> "csv",
           decoded |-> <<Undecodable, Undecodable,
                         Decoded(<<RowC, RowD>>), Decoded(<<RowC, RowD>>)>>]
CsvHeaderOnly == [kind |-> "csv",
                  decoded |-> <<Decoded(<<>>), Decoded(<<>>), Decoded(<<>>), Decoded(<<>>)>>]
CsvBroken == [kind |-> "csv",
              decoded |-> <<Undecodable, Undecodable, Undecodable, Undecodable>>]
Workbook == [kind |-> "workbook", opens |-> TRUE, sheets |-> << <<>>, <<RowB, RowE>> >>]
WorkbookEmpty == [kind |-> "workbook", opens |-> TRUE, sheets |-> << <<>>, <<>> >>]
WorkbookBroken == [kind |-> "workbook", opens |-> FALSE, sheets |-> <<>>]

\* member.filename.count("/") and Path(member.filename).name.lower()
SlashCount(name) ==
    CASE name = "a/alarm_local.csv" -> 1
      [] name = "b/c/alarm_local.csv" -> 2
      [] name = "x/ALARM_LOCAL.CSV" -> 1
      [] name = "logs/" -> 1
      [] OTHER -> 0

BaseNameLower(name) ==
    CASE name \in {"a/alarm_local.csv", "b/c/alarm_local.csv", "x/ALARM_LOCAL.CSV"}
            -> "alarm_local.csv"
      [] name = "logs/" -> "logs"
      [] OTHER -> name

Member(name, dir, size, data) == [name |-> name, dir |-> dir, size |-> size, data |-> data]

ArchiveGood == [kind |-> "archive", opens |-> TRUE,
                members |-> <<Member("logs/", TRUE, 0, CsvBroken),
                              Member("b/c/alarm_local.csv", FALSE, 5, CsvUtf8),
                              Member("a/alarm_local.csv", FALSE, 9, CsvGbk),
                              Member("readme.txt", FALSE, 3, CsvBroken)>>]
ArchiveNoMember == [kind |-> "archive", opens |-> TRUE,
                    members |-> <<Member("readme.txt", FALSE, 3, CsvBroken)>>]
ArchiveEmptyMember == [kind |-> "archive", opens |-> TRUE,
                       members |-> <<Member("a/alarm_local.csv", FALSE, 7, CsvUtf8),
                                     Member("x/ALARM_LOCAL.CSV", FALSE, 0, CsvBroken)>>]
ArchiveBroken == [kind |-> "archive", opens |-> FALSE, members |-> <<>>]

\* the members the archives of SpecArchive are made of: files named
\* alarm_local.csv in any letter case at several depths and sizes, one of them
\* empty, a directory of that name and a file of another name
MemberSet ==
    {Member("a/alarm_local.csv", FALSE, 9, CsvGbk),
     Member("x/ALARM_LOCAL.CSV", FALSE, 9, CsvUtf8),
     Member("a/alarm_local.csv", FALSE, 4, CsvUtf8),
     Member("b/c/alarm_local.csv", FALSE, 5, CsvUtf8),
     Member("alarm_local.csv", FALSE, 12, CsvGbk),
     Member("x/ALARM_LOCAL.CSV", FALSE, 0, CsvBroken),
     Member("a/alarm_local.csv", TRUE, 0, CsvBroken),
     Member("readme.txt", FALSE, 3, CsvBroken)}

\* filename.lower().endswith(suffix) for a suffix of ARCHIVE_SUFFIXES, and
\* Path(filename).suffix.lower()
ArchiveSuffixOf(filename) ==
    CASE filename \in {"p.zip", "e.ZIP", "n.zip", "bad.zip", "empty.zip"} -> ".zip"
      [] filename \in {"q.tar.gz", "bad.tar.gz"} -> ".tar.gz"
      [] OTHER -> ""

PathSuffixLower(filename) ==
    CASE filename \in {"a.csv", "g.csv", "h.csv", "j.csv", "big.csv", "mid.csv", "zero.csv",
                        "alarm_local.csv"} -> ".csv"
      [] filename \in {"w.xlsx", "we.xlsx", "wb.xlsx", "uploaded.xlsx"} -> ".xlsx"
      [] filename \in {"p.zip", "n.zip", "bad.zip", "empty.zip"} -> ".zip"
      [] filename = "e.ZIP" -> ".zip"
      [] filename \in {"q.tar.gz", "bad.tar.gz"} -> ".gz"
      [] filename = "t.txt" -> ".txt"
      [] OTHER -> ""

\* re.sub(r"[^A-Za-z0-9._-]+", "_", Path(filename).name) of the model's names
SafeName(filename) == IF filename = "" THEN "archive_upload.bin" ELSE filename

MB == 1024 * 1024

Upload(filename, size, content) == [filename |-> filename, size |-> size, content |-> content]

\* uploads that are stored
GoodUploads ==
    {Upload("a.csv", 30, CsvUtf8),
     Upload("g.csv", 20, CsvGbk),
     Upload("p.zip", 40, ArchiveGood)}

\* uploads that are rejected
BadUploads ==
    {Upload("empty.zip", 0, ArchiveBroken),
     Upload("big.csv", DEFAULT_MAX_UPLOAD_SIZE_MB * MB + 1, CsvBroken),
     Upload("mid.csv", MB + 1, CsvUtf8),
     Upload("t.txt", 8, CsvUtf8),
     Upload("", 8, WorkbookBroken),
     Upload("we.xlsx", 8, WorkbookEmpty),
     Upload("h.csv", 8, CsvHeaderOnly),
     Upload("j.csv", 8, CsvBroken),
     Upload("bad.zip", 8, ArchiveBroken),
     Upload("bad.tar.gz", 8, ArchiveBroken),
     Upload("n.zip", 8, ArchiveNoMember),
     Upload("e.ZIP", 8, ArchiveEmptyMember)}

Uploads == GoodUploads \cup BadUploads

\* the server-local paths of process_file_path: a path names a file or nothing
NoFile == Upload("", 0, CsvBroken)
LocalPaths == {"/data/a.csv", "/data/q.tar.gz", "/data/w.xlsx", "/data/empty.csv",
               "/data/big.csv", "/data/missing.csv", "/data"}
FileAt(path) ==
    CASE path = "/data/a.csv" -> Upload("a.csv", 30, CsvUtf8)
      [] path = "/data/q.tar.gz" -> Upload("q.tar.gz", 40, ArchiveGood)
      [] path = "/data/w.xlsx" -> Upload("w.xlsx", 25, Workbook)
      [] path = "/data/empty.csv" -> Upload("zero.csv", 0, CsvHeaderOnly)
      [] path = "/data/big.csv" -> Upload("big.csv", DEFAULT_MAX_UPLOAD_SIZE_MB * MB + 1, CsvBroken)
      [] OTHER -> NoFile
\* path.exists() and path.is_file()
IsFile(path) == FileAt(path) # NoFile

(***************************************************************************)
(* get_requester_identity: the client address and its USER_IP_MAP entry.   *)
(***************************************************************************)
NoUser == [mapped |-> FALSE]
UserEntry(user, uid) == [mapped |-> TRUE, user |-> user, uid |-> uid]
Identity(ip, user) == [client_ip |-> ip, user |-> user]

Anonymous == Identity(NULL, NoUser)
Unmapped == Identity("10.0.0.1", NoUser)
NoneUser == Identity("10.0.0.1", UserEntry("None", 3))
Bob == Identity("10.0.0.2", UserEntry("bob", 1))
BobPadded == Identity("10.0.0.3", UserEntry(" bob", 2))

Identities == {Anonymous, Unmapped, NoneUser, Bob, BobPadded}

\* the requests of Spec and of SpecConc, and the requesters of SpecIngest
Requests ==
    {<<Upload("a.csv", 30, CsvUtf8), Anonymous>>,
     <<Upload("a.csv", 30, CsvUtf8), Unmapped>>,
     <<Upload("p.zip", 40, ArchiveGood), Unmapped>>,
     <<Upload("p.zip", 40, ArchiveGood), Bob>>,
     <<Upload("a.csv", 30, CsvUtf8), BobPadded>>,
     <<Upload("g.csv", 20, CsvGbk), NoneUser>>}
ConcRequests ==
    {<<Upload("a.csv", 30, CsvUtf8), Unmapped>>,
     <<Upload("p.zip", 40, ArchiveGood), Bob>>}
IngestIdentities == {Bob}

\* the configurations load_app_config can produce
Configs ==
    {[archive_backup_enabled |-> TRUE, max_upload_size_mb |-> 1],
     [archive_backup_enabled |-> FALSE, max_upload_size_mb |-> 0]}

(***************************************************************************)
(* State.  reports and seq are the committed contents of the database file *)
(* (table reports and the AUTOINCREMENT counter of sqlite_sequence); clock *)
(* is CURRENT_TIMESTAMP; backups is the archive backup directory; result   *)
(* is the outcome of the last request that returned.                       *)
(* pc, loc, writer and tx are the worker processes of SpecConc: the        *)
(* position of each in its handler, its local variables, the holder of the *)
(* database write lock and the uncommitted database of that holder.        *)
(* rowsA, rowsB and merged are the inputs and outputs of SpecPure; entries  *)
(* and mergeOut are the summary entries given to merge_summary_items in    *)
(* SpecMerge and what it made of them; archive and extracted are the       *)
(* archive given to find_alarm_csv_in_zip / _in_tar in SpecArchive and     *)
(* what it returned or raised.                                             *)
(***************************************************************************)
VARIABLES APP_CONFIG, reports, seq, clock, backups, result,
          pc, loc, writer, tx, rowsA, rowsB, merged,
          entries, mergeOut, archive, extracted

storeVars == <<reports, seq, backups>>
procVars == <<pc, loc, writer, tx>>
pureVars == <<rowsA, rowsB, merged, entries, mergeOut, archive, extracted>>
vars == <<APP_CONFIG, reports, seq, clock, backups, result, pc, loc, writer, tx,
          rowsA, rowsB, merged, entries, mergeOut, archive, extracted>>

Procs == {1, 2}

\* get_max_upload_size_bytes()
get_max_upload_size_bytes(config) ==
    LET size_mb == IF config.max_upload_size_mb < 1
                   THEN DEFAULT_MAX_UPLOAD_SIZE_MB
                   ELSE config.max_upload_size_mb
    IN  size_mb * MB

\* is_archive_filename(filename)
is_archive_filename(filename) == ArchiveSuffixOf(filename) \in ARCHIVE_SUFFIXES

(***************************************************************************)
(* find_alarm_csv_in_zip / find_alarm_csv_in_tar: candidates.sort(key =    *)
(* (depth, size)) is stable and ascending.                                 *)
(***************************************************************************)
\* the sort key without the size
MemberBeforeByDepth(a, b) == SlashCount(a.name) < SlashCount(b.name)

MemberBefore(a, b) ==
    \/ SlashCount(a.name) < SlashCount(b.name)
    \/ SlashCount(a.name) = SlashCount(b.name) /\ a.size < b.size

RECURSIVE InsertAsc(_, _)
InsertAsc(sorted, x) ==
    IF sorted = <<>> THEN <<x>>
    ELSE IF MemberBefore(x, Head(sorted))
         THEN <<x>> \o sorted
         ELSE <<Head(sorted)>> \o InsertAsc(Tail(sorted), x)

RECURSIVE SortMembers(_, _)
SortMembers(s, acc) ==
    IF s = <<>> THEN acc ELSE SortMembers(Tail(s), InsertAsc(acc, Head(s)))

IsCandidate(member) == ~member.dir /\ BaseNameLower(member.name) = TARGET_ARCHIVE_MEMBER

Fail(error) == [ok |-> FALSE, error |-> error]

find_alarm_csv(content) ==
    IF content.kind # "archive" \/ ~content.opens THEN Fail("InvalidArchive")
    ELSE LET candidates == SortMembers(SelectSeq(content.members, IsCandidate), <<>>)
         IN  IF candidates = <<>> THEN Fail("MissingMember")
             ELSE IF candidates[1].size = 0 THEN Fail("EmptyMember")
             ELSE [ok |-> TRUE, name |-> candidates[1].name, content |-> candidates[1].data]

\* resolve_analysis_source(filename, content)
resolve_analysis_source(filename, content) ==
    IF ~is_archive_filename(filename)
    THEN [ok |-> TRUE, filename |-> filename, content |-> content, archive_member |-> NULL]
    ELSE LET found == find_alarm_csv(content)
         IN  IF ~found.ok THEN found
             ELSE [ok |-> TRUE, filename |-> TARGET_ARCHIVE_MEMBER,
                   content |-> found.content, archive_member |-> found.name]

\* parse_table_rows: the loop over CSV_ENCODINGS
RECURSIVE ParseCsv(_, _)
ParseCsv(content, i) ==
    IF i > Len(CSV_ENCODINGS) THEN Fail("InvalidCsv")
    ELSE IF content.kind # "csv" \/ ~content.decoded[i].ok THEN ParseCsv(content, i + 1)
    ELSE IF content.decoded[i].rows # <<>>
         THEN [ok |-> TRUE, rows |-> content.decoded[i].rows]
         ELSE Fail("NoDataRows")

\* parse_table_rows: the loop over workbook.sheet_names
RECURSIVE ParseSheets(_, _)
ParseSheets(sheets, i) ==
    IF i > Len(sheets) THEN Fail("NoDataRows")
    ELSE IF sheets[i] # <<>> THEN [ok |-> TRUE, rows |-> sheets[i]]
    ELSE ParseSheets(sheets, i + 1)

\* parse_table_rows(content, suffix)
parse_table_rows(content, suffix) ==
    IF suffix \notin SUPPORTED_EXTENSIONS THEN Fail("UnsupportedFormat")
    ELSE IF suffix \in {".xlsx", ".xls"}
         THEN IF content.kind # "workbook" \/ ~content.opens
              THEN Fail("InvalidWorkbook")
              ELSE ParseSheets(content.sheets, 1)
         ELSE ParseCsv(content, 1)

\* json.dumps of a summary and parse_report_summary of the stored text
JsonDumps(summary) == [kind |-> "list", items |-> summary]

parse_report_summary(summary_raw) ==
    IF summary_raw.kind # "list" THEN <<>>
    ELSE SelectSeq(summary_raw.items, IsDict)

\* analyze_and_store, lines 628-640: everything before the connection is opened
Analysis(filename, content, identity) ==
    LET source == resolve_analysis_source(filename, content)
    IN  IF ~source.ok THEN source
        ELSE LET parsed == parse_table_rows(source.content, PathSuffixLower(source.filename))
             IN  IF ~parsed.ok THEN parsed
                 ELSE [ok |-> TRUE,
                       filename |-> filename,
                       summary |-> JsonDumps(analyze_rows(parsed.rows)),
                       rowCount |-> Len(parsed.rows),
                       archive_member |-> source.archive_member,
                       uploader_user |-> IF identity.user.mapped
                                         THEN identity.user.user ELSE NULL,
                       uploader_uid |-> IF identity.user.mapped
                                        THEN identity.user.uid ELSE NULL_UID,
                       uploader_ip |-> identity.client_ip]

(***************************************************************************)
(* The statements on a database: db is [rows, seq].                        *)
(***************************************************************************)
Db(rows, s) == [rows |-> rows, seq |-> s]

NoPath == <<>>

\* INSERT INTO reports ... of analyze_and_store (lines 643-658)
InsertNormal(db, a, now) ==
    Db(db.rows \cup {[id |-> db.seq + 1,
                      filename |-> a.filename,
                      created_at |-> now,
                      summary |-> a.summary,
                      raw_data |-> [rowCount |-> a.rowCount,
                                    archive_member |-> a.archive_member,
                                    archive_backup_path |-> NoPath],
                      uploader_user |-> a.uploader_user,
                      uploader_uid |-> a.uploader_uid,
                      uploader_ip |-> a.uploader_ip,
                      report_type |-> REPORT_TYPE_NORMAL]},
       db.seq + 1)

\* UPDATE reports SET raw_data = ? WHERE id = ? (lines 660-664)
PatchRawData(db, report_id, path) ==
    Db({IF r.id = report_id
        THEN [r EXCEPT !.raw_data = [r.raw_data EXCEPT !.archive_backup_path = path]]
        ELSE r : r \in db.rows},
       db.seq)

\* the DELETE taking the aggregate rows with the row of that id
DeleteRowCascade(db, report_id) ==
    Db({r \in db.rows : r.id # report_id /\ r.report_type = REPORT_TYPE_NORMAL}, db.seq)

\* DELETE FROM reports WHERE id = ?
DeleteRow(db, report_id) == Db({r \in db.rows : r.id # report_id}, db.seq)

\* re.sub(r"[^A-Za-z0-9._-]+", "_", str(username).strip()) or "unknown_user"
SafeUserName(identity) ==
    IF ~identity.user.mapped THEN "unknown_user"
    ELSE IF Strip(identity.user.user) = "" THEN "unknown_user"
    ELSE Strip(identity.user.user)

\* backup_archive: the path it writes, NoPath when it returns None
backup_archive(config, filename, identity, report_id, now) ==
    IF ~is_archive_filename(filename) THEN NoPath
    ELSE IF ~config.archive_backup_enabled THEN NoPath
    ELSE <<SafeUserName(identity), now, report_id, SafeName(filename)>>

(***************************************************************************)
(* get_latest_reports_for_each_uploader                                    *)
(***************************************************************************)
\* get_uploader_identity_key(row): the f-string is the pair of its two parts
get_uploader_identity_key(row) ==
    LET uploader_user == clean_text(row.uploader_user, "")
        uploader_ip == clean_text(row.uploader_ip, "")
    IN  IF uploader_user # "" THEN <<"user", uploader_user>>
        ELSE IF uploader_ip # "" THEN <<"ip", uploader_ip>>
        ELSE <<"unknown", "unknown">>

\* ORDER BY datetime(created_at) DESC, id DESC
Newer(a, b) ==
    \/ a.created_at > b.created_at
    \/ a.created_at = b.created_at /\ a.id > b.id

RECURSIVE OrderByCreatedDesc(_)
OrderByCreatedDesc(rows) ==
    IF rows = {} THEN <<>>
    ELSE LET first == CHOOSE r \in rows : \A o \in rows \ {r} : Newer(r, o)
         IN  <<first>> \o OrderByCreatedDesc(rows \ {first})

\* the query without its WHERE clause
NotAggregateUnfiltered(rows) == rows

\* WHERE COALESCE(report_type, 'normal') != 'aggregate_latest_all'
NotAggregate(rows) == {r \in rows : r.report_type # REPORT_TYPE_AGGREGATE_LATEST_ALL}

\* the loop without the "if key in seen: continue"
KeepEveryRow(rows, seen) == rows

RECURSIVE KeepFirstPerKey(_, _)
KeepFirstPerKey(rows, seen) ==
    IF rows = <<>> THEN <<>>
    ELSE LET key == get_uploader_identity_key(Head(rows))
         IN  IF key \in seen
             THEN KeepFirstPerKey(Tail(rows), seen)
             ELSE <<Head(rows)>> \o KeepFirstPerKey(Tail(rows), seen \cup {key})

get_latest_reports_for_each_uploader(rows) ==
    KeepFirstPerKey(OrderByCreatedDesc(NotAggregate(rows)), {})

(***************************************************************************)
(* create_latest_aggregate_report                                          *)
(***************************************************************************)
RECURSIVE AllSummaryItems(_)
AllSummaryItems(latest_rows) ==
    IF latest_rows = <<>> THEN <<>>
    ELSE parse_report_summary(Head(latest_rows).summary) \o AllSummaryItems(Tail(latest_rows))

SourceReports(latest_rows) ==
    [i \in 1..Len(latest_rows) |->
        [id |-> latest_rows[i].id,
         filename |-> latest_rows[i].filename,
         created_at |-> latest_rows[i].created_at,
         uploader_user |-> latest_rows[i].uploader_user,
         uploader_uid |-> latest_rows[i].uploader_uid,
         uploader_ip |-> latest_rows[i].uploader_ip]]

\* lines 509-530: the merged summary and the raw_data payload
AggregateFields(latest_rows) ==
    [filename |-> AGGREGATE_REPORT_FILENAME,
     summary |-> JsonDumps(merge_summary_items(AllSummaryItems(latest_rows))),
     raw_data |-> [aggregation_type |-> "latest_report_per_uploader",
                   source_count |-> Len(latest_rows),
                   source_reports |-> SourceReports(latest_rows)],
     uploader_user |-> "system",
     uploader_uid |-> NULL_UID,
     uploader_ip |-> NULL,
     report_type |-> REPORT_TYPE_AGGREGATE_LATEST_ALL]

\* SELECT id FROM reports WHERE report_type = 'aggregate_latest_all' ORDER BY id ASC
RECURSIVE AscendingIds(_)
AscendingIds(ids) ==
    IF ids = {} THEN <<>>
    ELSE LET low == CHOOSE i \in ids : \A j \in ids : i <= j
         IN  <<low>> \o AscendingIds(ids \ {low})

\* the SELECT matching no row
ExistingAggregateIdsNone(rows) == <<>>

ExistingAggregateIds(rows) ==
    AscendingIds({r.id : r \in {x \in rows : x.report_type = REPORT_TYPE_AGGREGATE_LATEST_ALL}})

\* the INSERT taken whether or not an aggregate row exists
WriteAggregateInsertOnly(db, existing_rows, fields, now) ==
    Db(db.rows \cup {fields @@ [id |-> db.seq + 1, created_at |-> now]}, db.seq + 1)

\* lines 541-566 and 576-591: UPDATE the first existing aggregate row, or INSERT one
WriteAggregate(db, existing_rows, fields, now) ==
    IF existing_rows # <<>>
    THEN Db({IF r.id = existing_rows[1]
             THEN fields @@ [id |-> r.id, created_at |-> now]
             ELSE r : r \in db.rows},
            db.seq)
    ELSE Db(db.rows \cup {fields @@ [id |-> db.seq + 1, created_at |-> now]}, db.seq + 1)

\* report_id of lines 542 and 591
AggregateId(db, existing_rows) ==
    IF existing_rows # <<>> THEN existing_rows[1] ELSE db.seq + 1

\* the rebuild without lines 568-574
DeleteExtrasNone(db, existing_rows) == db

\* lines 568-574: DELETE the aggregate rows after the first
DeleteExtras(db, existing_rows) ==
    IF existing_rows = <<>> THEN db
    ELSE Db({r \in db.rows : \A i \in 2..Len(existing_rows) : r.id # existing_rows[i]},
            db.seq)

\* get_report_by_id(conn, report_id) is not None
HasReport(rows, report_id) == \E r \in rows : r.id = report_id

(***************************************************************************)
(* Spec: each handler runs to completion.                                  *)
(* result: op and status of the last response, the id of the report it     *)
(* returned (0: none), what became of the backup write ("none", "written", *)
(* "failed"), the number of successful rebuilds in a row (up to 2) and the  *)
(* file name or path an ingestion was asked for.                           *)
(***************************************************************************)
Result(op, status, id, backup, streak, input) ==
    [op |-> op, status |-> status, id |-> id, backup |-> backup, streak |-> streak,
     input |-> input]

NoLoc == [op |-> "none"]

StoreInit ==
    /\ reports = {}
    /\ seq = 0
    /\ clock = 0
    /\ backups = {}
    /\ result = Result("none", "none", 0, "none", 0, "")

ProcInit ==
    /\ pc = [p \in Procs |-> "idle"]
    /\ loc = [p \in Procs |-> NoLoc]
    /\ writer = 0
    /\ tx = Db({}, 0)

NotMerged == [stage |-> 0]

NoArchive == [kind |-> "none"]
NotExtracted == [stage |-> 0]

\* the specifications of the handlers are given no input of the pure functions
MergeIdle ==
    /\ entries = <<>>
    /\ mergeOut = NotMerged

ArchiveIdle ==
    /\ archive = NoArchive
    /\ extracted = NotExtracted

PureInit ==
    /\ rowsA = <<>>
    /\ rowsB = <<>>
    /\ merged = NotMerged
    /\ MergeIdle
    /\ ArchiveIdle

Init ==
    /\ APP_CONFIG \in Configs
    /\ StoreInit
    /\ ProcInit
    /\ PureInit

\* CURRENT_TIMESTAMP moves on
Tick ==
    /\ clock < MaxClock
    /\ clock' = clock + 1
    /\ UNCHANGED <<APP_CONFIG, reports, seq, backups, result, procVars, pureVars>>

\* a request that is rejected with an HTTPException: nothing but the response
Reject(op, status, input) ==
    /\ result' = Result(op, status, 0, "none", 0, input)
    /\ UNCHANGED <<APP_CONFIG, reports, seq, clock, backups, procVars, pureVars>>

\* analyze_and_store with the backup copy written before the file is analysed
analyze_and_store_backup_first(filename, content, identity) ==
    LET a == Analysis(filename, content, identity)
        early == backup_archive(APP_CONFIG, filename, identity, seq + 1, clock)
    IN  IF ~a.ok
        THEN /\ result' = Result("ingest", a.error, 0, "none", 0, filename)
             /\ backups' = IF early = NoPath THEN backups ELSE backups \cup {early}
             /\ UNCHANGED <<APP_CONFIG, reports, seq, clock, procVars, pureVars>>
        ELSE /\ seq < MaxId
             /\ LET inserted == InsertNormal(Db(reports, seq), a, clock)
                    patched == PatchRawData(inserted, inserted.seq, early)
                IN  /\ reports' = patched.rows
                    /\ seq' = patched.seq
                    /\ backups' = IF early = NoPath THEN backups ELSE backups \cup {early}
                    /\ result' = Result("ingest", "ok", inserted.seq,
                                        IF early = NoPath THEN "none" ELSE "written",
                                        0, filename)
                    /\ UNCHANGED <<APP_CONFIG, clock, procVars, pureVars>>

\* analyze_and_store(filename, content, requester_identity), run to completion
analyze_and_store(filename, content, identity) ==
    LET a == Analysis(filename, content, identity)
    IN  IF ~a.ok THEN Reject("ingest", a.error, filename)
        ELSE /\ seq < MaxId
             /\ LET inserted == InsertNormal(Db(reports, seq), a, clock)
                    report_id == inserted.seq
                    path == backup_archive(APP_CONFIG, filename, identity, report_id, clock)
                    patched == PatchRawData(inserted, report_id, path)
                IN  \/ /\ path # NoPath
                       \* backup_archive raises (mkdir or write_bytes fails): the
                       \* "with" block rolls the INSERT back and the request fails
                       /\ result' = Result("ingest", "InternalError", 0, "failed", 0, filename)
                       /\ UNCHANGED <<APP_CONFIG, reports, seq, clock, backups,
                                      procVars, pureVars>>
                    \/ /\ reports' = patched.rows
                       /\ seq' = patched.seq
                       /\ backups' = IF path = NoPath THEN backups ELSE backups \cup {path}
                       /\ result' = Result("ingest",
                                           IF HasReport(patched.rows, report_id)
                                           THEN "ok" ELSE "StoreInconsistency",
                                           report_id,
                                           IF path = NoPath THEN "none" ELSE "written",
                                           0, filename)
                       /\ UNCHANGED <<APP_CONFIG, clock, procVars, pureVars>>

\* normalize_filename(name) of the model's names
normalize_filename(name) == IF name = "" THEN "uploaded.xlsx" ELSE name

\* process_upload without the two checks of the payload size
process_upload_unchecked(upload, identity) ==
    analyze_and_store(normalize_filename(upload.filename), upload.content, identity)

\* process_upload(file, requester_identity)
process_upload(upload, identity) ==
    IF upload.size = 0
    THEN Reject("ingest", "EmptyUpload", normalize_filename(upload.filename))
    ELSE IF upload.size > get_max_upload_size_bytes(APP_CONFIG)
         THEN Reject("ingest", "FileTooLarge", normalize_filename(upload.filename))
         ELSE analyze_and_store(normalize_filename(upload.filename), upload.content, identity)

\* process_file_path(file_path, requester_identity)
process_file_path(path, identity) ==
    IF ~IsFile(path) THEN Reject("ingest", "PathNotFound", path)
    ELSE IF FileAt(path).size <= 0 THEN Reject("ingest", "EmptyUpload", FileAt(path).filename)
    ELSE IF FileAt(path).size > get_max_upload_size_bytes(APP_CONFIG)
         THEN Reject("ingest", "FileTooLarge", FileAt(path).filename)
         ELSE analyze_and_store(FileAt(path).filename, FileAt(path).content, identity)

\* delete_report(report_id)
delete_report(report_id) ==
    IF ~HasReport(reports, report_id) THEN Reject("delete", "NotFound", "")
    ELSE /\ reports' = DeleteRow(Db(reports, seq), report_id).rows
         /\ result' = Result("delete", "ok", 0, "none", 0, "")
         /\ UNCHANGED <<APP_CONFIG, seq, clock, backups, procVars, pureVars>>

\* create_latest_aggregate_report without the test of lines 506-507
aggregate_latest_reports_unguarded ==
    LET latest_rows == get_latest_reports_for_each_uploader(reports)
        existing_rows == ExistingAggregateIds(reports)
        db == Db(reports, seq)
        written == WriteAggregate(db, existing_rows, AggregateFields(latest_rows), clock)
        final == DeleteExtras(written, existing_rows)
    IN  /\ existing_rows = <<>> => seq < MaxId
        /\ reports' = final.rows
        /\ seq' = final.seq
        /\ result' = Result("rebuild", "ok", AggregateId(db, existing_rows), "none", 1, "")
        /\ UNCHANGED <<APP_CONFIG, clock, backups, procVars, pureVars>>

\* aggregate_latest_reports() -> create_latest_aggregate_report(conn)
aggregate_latest_reports ==
    LET latest_rows == get_latest_reports_for_each_uploader(reports)
        existing_rows == ExistingAggregateIds(reports)
        db == Db(reports, seq)
        written == WriteAggregate(db, existing_rows, AggregateFields(latest_rows), clock)
        final == DeleteExtras(written, existing_rows)
        report_id == AggregateId(db, existing_rows)
    IN  IF latest_rows = <<>> THEN Reject("rebuild", "NoReportsAvailable", "")
        ELSE /\ existing_rows = <<>> => seq < MaxId
             /\ reports' = final.rows
             /\ seq' = final.seq
             /\ result' = Result("rebuild",
                                 IF HasReport(final.rows, report_id)
                                 THEN "ok" ELSE "StoreInconsistency",
                                 report_id,
                                 "none",
                                 IF result.op = "rebuild" /\ result.status = "ok"
                                 THEN 2 ELSE 1,
                                 "")
             /\ UNCHANGED <<APP_CONFIG, clock, backups, procVars, pureVars>>

Next ==
    \/ Tick
    \/ \E request \in Requests : process_upload(request[1], request[2])
    \/ \E report_id \in 1..MaxId : delete_report(report_id)
    \/ aggregate_latest_reports

Spec == Init /\ [][Next]_vars

(***************************************************************************)
(* SpecIngest: the two ingestion entry points on every upload and path.    *)
(***************************************************************************)
NextIngest ==
    \/ Tick
    \/ \E upload \in Uploads, identity \in IngestIdentities :
          process_upload(upload, identity)
    \/ \E path \in LocalPaths, identity \in IngestIdentities :
          process_file_path(path, identity)

SpecIngest == Init /\ [][NextIngest]_vars

(***************************************************************************)
(* Properties of the store (Spec).                                         *)
(***************************************************************************)
Aggregates(rows) == {r \in rows : r.report_type = REPORT_TYPE_AGGREGATE_LATEST_ALL}
Normals(rows) == {r \in rows : r.report_type = REPORT_TYPE_NORMAL}
AggregateIds(rows) == {r.id : r \in Aggregates(rows)}
AggregateSummaries(rows) == {r.summary : r \in Aggregates(rows)}
Ids(rows) == {r.id : r \in rows}

\* a step of a handler that answered a rebuild with success (Tick moves the clock)
RebuildReturned ==
    /\ result'.op = "rebuild"
    /\ result'.status = "ok"
    /\ clock' = clock

\* C1: after any sequence of completed ingestUpload, deleteById and
\* rebuildLatestAggregate operations from the empty store, at most one stored
\* report has report_type = aggregate_latest_all.
C1_AtMostOneAggregate == Cardinality(Aggregates(reports)) <= 1

\* C1 witness: a rebuild has answered in a store whose aggregate is older than one
\* of the normal reports, so the rebuild met an existing aggregate.
C1_Witness ==
    /\ result.op = "rebuild"
    /\ result.status = "ok"
    /\ \E a \in Aggregates(reports) : \E n \in Normals(reports) : n.id > a.id

\* C3: a second successful rebuildLatestAggregate in a row leaves the aggregate
\* summary exactly as the first one left it (owners, faults, counts and order), and
\* exactly one aggregate record exists after each of the two runs.
C3_RebuildIdempotent ==
    [][(RebuildReturned /\ result'.streak = 2)
         => /\ AggregateSummaries(reports') = AggregateSummaries(reports)
            /\ Cardinality(Aggregates(reports)) = 1
            /\ Cardinality(Aggregates(reports')) = 1]_vars

\* C3 witness: two rebuilds in a row have answered, the second at a later time than
\* the newest normal report, over at least two contributing reports.
C3_Witness ==
    /\ result.op = "rebuild"
    /\ result.streak = 2
    /\ \E a \in Aggregates(reports) :
          /\ a.raw_data.source_count >= 2
          /\ Len(a.summary.items) >= 2
          /\ \A n \in Normals(reports) : n.created_at < a.created_at

\* C4: a successful rebuildLatestAggregate in a store without an aggregate record
\* creates one, and in a store whose aggregate record has id k it leaves the
\* aggregate record at id k, rewritten in place: no record is inserted.
C4_AggregateStateMachine ==
    [][RebuildReturned
         => /\ AggregateIds(reports) = {}
                 => /\ Cardinality(AggregateIds(reports')) = 1
                    /\ Ids(reports') = Ids(reports) \cup AggregateIds(reports')
            /\ \A k \in AggregateIds(reports) :
                  AggregateIds(reports) = {k}
                     => /\ AggregateIds(reports') = {k}
                        /\ Ids(reports') = Ids(reports)
                        /\ seq' = seq
                        /\ \A a \in Aggregates(reports') :
                              /\ a.created_at = clock
                              /\ a.raw_data.source_count =
                                    Len(get_latest_reports_for_each_uploader(reports))]_vars

\* C4 witness: the aggregate was created, a report was uploaded after it, and two
\* rebuilds in a row have answered with the aggregate still at its first id.
C4_Witness ==
    /\ result.op = "rebuild"
    /\ result.streak = 2
    /\ \E a \in Aggregates(reports) : result.id = a.id /\ a.id < seq

\* the order and the keys of C5, stated apart from the code
MoreRecent(a, b) ==
    \/ a.created_at > b.created_at
    \/ a.created_at = b.created_at /\ a.id > b.id

Absent(value) ==
    \/ value = NULL
    \/ Strip(value) = ""
    \/ Lower(Strip(value)) \in {"nan", "none", "null"}

\* the key as the claim words it: the stored user if present and not blank
ClaimedKey(r) ==
    IF r.uploader_user # NULL /\ Strip(r.uploader_user) # ""
    THEN <<"user", r.uploader_user>>
    ELSE IF r.uploader_ip # NULL THEN <<"ip", r.uploader_ip>>
    ELSE <<"unknown", "unknown">>

\* the key as amended: the trimmed value, absent when empty or nan/none/null
AmendedKey(r) ==
    IF ~Absent(r.uploader_user) THEN <<"user", Strip(r.uploader_user)>>
    ELSE IF ~Absent(r.uploader_ip) THEN <<"ip", Strip(r.uploader_ip)>>
    ELSE <<"unknown", "unknown">>

LatestPerKey(out, rows, Key(_)) ==
    /\ \A i \in 1..Len(out) : out[i] \in Normals(rows)
    /\ \A r \in Normals(rows) :
          /\ Cardinality({i \in 1..Len(out) : Key(out[i]) = Key(r)}) = 1
          /\ \A i \in 1..Len(out) :
                Key(out[i]) = Key(r) => (out[i] = r \/ MoreRecent(out[i], r))
    /\ \A i, j \in 1..Len(out) : i < j => MoreRecent(out[i], out[j])

\* C5 as claimed: listLatestPerUploader returns exactly one report, the most
\* recent, per key user:<uploader_user> (present and non-blank), else
\* ip:<uploader_ip>, else unknown:unknown, in descending order, no aggregate.
C5_AsClaimed ==
    LatestPerKey(get_latest_reports_for_each_uploader(reports), reports, ClaimedKey)

\* C5 as amended: the same with the key user:<trimmed uploader_user> when the
\* trimmed user is neither empty nor nan/none/null in any letter case, else
\* ip:<trimmed uploader_ip> under the same test, else unknown:unknown.
C5_LatestPerUploader ==
    LatestPerKey(get_latest_reports_for_each_uploader(reports), reports, AmendedKey)

\* C5 witness: two reports of one uploader_ip without uploader_user are stored with
\* reports of other uploaders, and only the more recent of the two is listed.
C5_Witness ==
    LET out == get_latest_reports_for_each_uploader(reports)
        listed == {out[i] : i \in 1..Len(out)}
    IN  /\ Len(out) >= 2
        /\ \E r1, r2 \in Normals(reports) :
              /\ r1.id < r2.id
              /\ r1.uploader_user = NULL /\ r2.uploader_user = NULL
              /\ r1.uploader_ip # NULL /\ r1.uploader_ip = r2.uploader_ip
              /\ r1 \notin listed
              /\ r2 \in listed

\* a step of the rebuild handler, whatever it answered (Tick moves the clock)
RebuildStep ==
    /\ result'.op = "rebuild"
    /\ clock' = clock

\* C11: rebuildLatestAggregate answers NoReportsAvailable exactly when the store
\* holds no non-aggregate report at the moment it is invoked, also when the only
\* record left is an aggregate built before, and then it writes nothing: the
\* reports, the id counter and the backup directory stay as they were.
C11_NoReportsAvailable ==
    [][RebuildStep
         => /\ (result'.status = "NoReportsAvailable")
                  <=> ({r \in reports : r.report_type # REPORT_TYPE_AGGREGATE_LATEST_ALL} = {})
            /\ (result'.status = "NoReportsAvailable")
                  => UNCHANGED <<reports, seq, backups>>]_vars

\* C11 witness: a rebuild has answered NoReportsAvailable in a store whose only
\* record is an aggregate built before and whose source report is deleted.
C11_Witness ==
    /\ result.op = "rebuild"
    /\ result.status = "NoReportsAvailable"
    /\ Normals(reports) = {}
    /\ \E a \in Aggregates(reports) :
          /\ reports = {a}
          /\ a.raw_data.source_count >= 1

\* C16: operations touch only their own record kind: a rebuildLatestAggregate
\* leaves the set of normal reports and every field of each as they were; an
\* ingestUpload leaves the aggregate record (id, summary, contributing reports) as
\* it was; a deleteById removes at most one record and, when that record is a
\* normal report, leaves the aggregate record as it was, so the aggregate can
\* name reports that are deleted or superseded until the next rebuild.
C16_OwnRecordKindOnly ==
    [][clock' = clock
         => /\ result'.op = "rebuild" => Normals(reports') = Normals(reports)
            /\ result'.op = "ingest" => Aggregates(reports') = Aggregates(reports)
            /\ result'.op = "delete"
                  => /\ reports' \subseteq reports
                     /\ Cardinality(reports \ reports') <= 1
                     /\ (reports \ reports') \subseteq Normals(reports)
                           => Aggregates(reports') = Aggregates(reports)]_vars

\* C16 witness: a delete has answered in a store whose aggregate names a report
\* that is no longer stored and does not name a normal report stored after it.
C16_Witness ==
    /\ result.op = "delete"
    /\ result.status = "ok"
    /\ \E a \in Aggregates(reports) :
          LET sources == {a.raw_data.source_reports[i].id :
                             i \in 1..Len(a.raw_data.source_reports)}
          IN  /\ \E id \in sources : id \notin Ids(reports)
              /\ \E n \in Normals(reports) : n.id \notin sources /\ n.id > a.id

(***************************************************************************)
(* Properties of ingestion (SpecIngest).                                   *)
(***************************************************************************)
ValidationErrors == {"FileTooLarge", "EmptyUpload", "PathNotFound"}
UserInputErrors == {"UnsupportedFormat", "InvalidWorkbook", "NoDataRows", "InvalidCsv",
                    "InvalidArchive", "MissingMember", "EmptyMember"}

\* the files a request can name, by the name the response records
RequestedFiles ==
    {Upload(normalize_filename(u.filename), u.size, u.content) : u \in Uploads}
       \cup {FileAt(path) : path \in {q \in LocalPaths : IsFile(q)}}

OutOfRange(size) == size <= 0 \/ size > get_max_upload_size_bytes(APP_CONFIG)

\* C8 as claimed: when the backup write of an archive upload fails, ingestUpload
\* still stores the normal report, with a null backup path, and returns it.
C8_AsClaimed ==
    result.backup = "failed"
       => /\ result.status = "ok"
          /\ \E r \in Normals(reports) :
                r.id = result.id /\ r.raw_data.archive_backup_path = NoPath

\* C9: an ingestion request whose payload is empty or above the size ceiling, or
\* whose path names no file, is answered with the validation error whatever the
\* payload holds (it is never resolved or parsed), and the reports, the id counter
\* and the backup directory are left exactly as they were.
C9_ValidationRejectsFirst ==
    [][/\ (result'.op = "ingest" /\ result'.status \in ValidationErrors)
            => UNCHANGED <<reports, seq, backups>>
       /\ \A f \in RequestedFiles :
             (result'.op = "ingest" /\ result'.input = f.filename /\ OutOfRange(f.size))
                => result'.status \in ValidationErrors]_vars

\* C9 witness: an oversized payload has been rejected in a store that holds a
\* report and a backup file.
C9_Witness ==
    /\ result.op = "ingest"
    /\ result.status = "FileTooLarge"
    /\ reports # {}
    /\ backups # {}

\* C10: an ingestUpload answered with UnsupportedFormat, InvalidWorkbook,
\* NoDataRows, InvalidCsv, InvalidArchive, MissingMember or EmptyMember leaves the
\* set of reports, every field of every report, the id counter and the backup
\* directory exactly as they were.
C10_InputErrorMutatesNothing ==
    [][(result'.op = "ingest" /\ result'.status \in UserInputErrors)
          => UNCHANGED <<reports, seq, backups>>]_vars

\* C10 witness: an archive whose selected member is empty has been rejected in a
\* store that holds a report and a backup file.
C10_Witness ==
    /\ result.op = "ingest"
    /\ result.status = "EmptyMember"
    /\ reports # {}
    /\ backups # {}

(***************************************************************************)
(* SpecPure: analyze_rows on two row sequences and on their concatenation, *)
(* then merge_summary_items on the entries of the two summaries.           *)
(***************************************************************************)
RECURSIVE SeqsUpTo(_, _)
SeqsUpTo(S, n) ==
    IF n = 0 THEN {<<>>}
    ELSE LET shorter == SeqsUpTo(S, n - 1)
         IN  shorter \cup {Append(q, x) : q \in shorter, x \in S}

InitPure ==
    /\ APP_CONFIG = [archive_backup_enabled |-> TRUE, max_upload_size_mb |-> 1]
    /\ StoreInit
    /\ ProcInit
    /\ rowsA \in SeqsUpTo(RowSet, MaxRows)
    /\ rowsB \in SeqsUpTo(RowSet, MaxRows)
    /\ merged = NotMerged
    /\ MergeIdle
    /\ ArchiveIdle

Aggregate ==
    /\ merged.stage = 0
    /\ merged' = [stage |-> 1,
                  a |-> analyze_rows(rowsA),
                  b |-> analyze_rows(rowsB),
                  whole |-> analyze_rows(rowsA \o rowsB)]
    /\ UNCHANGED <<APP_CONFIG, reports, seq, clock, backups, result, procVars, rowsA, rowsB,
                   entries, mergeOut, archive, extracted>>

Merge ==
    /\ merged.stage = 1
    /\ merged' = [stage |-> 2,
                  whole |-> merged.whole,
                  split |-> merge_summary_items(merged.a \o merged.b)]
    /\ UNCHANGED <<APP_CONFIG, reports, seq, clock, backups, result, procVars, rowsA, rowsB,
                   entries, mergeOut, archive, extracted>>

NextPure == Aggregate \/ Merge

SpecPure == InitPure /\ [][NextPure]_vars

\* what a summary holds, whatever the order of its owners and faults
FaultsOf(entry) == {<<entry.faults[j].name, entry.faults[j].count>> : j \in 1..Len(entry.faults)}
ContentOf(summary) ==
    {<<summary[i].owner, summary[i].total, FaultsOf(summary[i]), Len(summary[i].faults)>> :
        i \in 1..Len(summary)}

\* C6: merge over the entries of aggregate(rowsA) followed by those of
\* aggregate(rowsB) holds the same owners, the same fault names per owner, the same
\* counts and the same totals as aggregate(rowsA + rowsB), each owner and each
\* fault once.
C6_MergeOfAggregates ==
    merged.stage = 2
       => /\ ContentOf(merged.split) = ContentOf(merged.whole)
          /\ Len(merged.split) = Len(merged.whole)

\* C6 witness: the merge has run on two non-empty row sequences and its result
\* differs from the aggregate of the concatenation in order alone.
C6_Witness ==
    /\ merged.stage = 2
    /\ rowsA # <<>>
    /\ rowsB # <<>>
    /\ merged.split # merged.whole

(***************************************************************************)
(* SpecMerge: analyze_rows on a row sequence, then merge_summary_items on  *)
(* the entries of that summary followed by entries of a stored summary     *)
(* that the program did not write itself.                                  *)
(***************************************************************************)
InitMerge ==
    /\ APP_CONFIG = [archive_backup_enabled |-> TRUE, max_upload_size_mb |-> 1]
    /\ StoreInit
    /\ ProcInit
    /\ rowsA \in SeqsUpTo(RowSet, MaxEntries)
    /\ rowsB = <<>>
    /\ merged = NotMerged
    /\ entries \in SeqsUpTo(EntrySet, MaxEntries)
    /\ mergeOut = NotMerged
    /\ ArchiveIdle

AnalyzeRows ==
    /\ mergeOut.stage = 0
    /\ mergeOut' = [stage |-> 1, analyzed |-> analyze_rows(rowsA)]
    /\ UNCHANGED <<APP_CONFIG, reports, seq, clock, backups, result, procVars,
                   rowsA, rowsB, merged, entries, archive, extracted>>

MergeEntries ==
    /\ mergeOut.stage = 1
    /\ LET summary_items == mergeOut.analyzed \o entries
       IN  mergeOut' = [stage |-> 2,
                        analyzed |-> mergeOut.analyzed,
                        items |-> summary_items,
                        raised |-> merge_raises(summary_items),
                        merged |-> IF merge_raises(summary_items) THEN <<>>
                                   ELSE merge_summary_items(summary_items)]
    /\ UNCHANGED <<APP_CONFIG, reports, seq, clock, backups, result, procVars,
                   rowsA, rowsB, merged, entries, archive, extracted>>

NextMerge == AnalyzeRows \/ MergeEntries

SpecMerge == InitMerge /\ [][NextMerge]_vars

\* the well-formed part of the input of merge, stated apart from the code: the
\* positions <<i, j>> of the fault entries that are objects with a count that is a
\* positive integer or converts to one, inside entries that are objects with a
\* list of faults; an absent or blank owner or name stands for its fallback
Coerced(f) ==
    IF "count" \in DOMAIN f THEN f.count
    ELSE IF "count_json" \in DOMAIN f /\ f.count_json = "\"3\"" THEN 3
    ELSE 0

Contributions(items) ==
    UNION {{<<i, j>> : j \in {k \in 1..Len(items[i].faults) :
                                 /\ "nondict" \notin DOMAIN items[i].faults[k]
                                 /\ Coerced(items[i].faults[k]) > 0}} :
              i \in {k \in 1..Len(items) :
                        /\ "nondict" \notin DOMAIN items[k]
                        /\ "faults" \in DOMAIN items[k]}}

NameAt(record, key, fallback) ==
    IF key \in DOMAIN record /\ ~Absent(record[key]) THEN Strip(record[key]) ELSE fallback

OwnerAt(items, pos) == NameAt(items[pos[1]], "owner", "Unknown")
FaultAt(items, pos) == NameAt(items[pos[1]].faults[pos[2]], "name", "Unknown Fault")

RECURSIVE SumAt(_, _)
SumAt(items, positions) ==
    IF positions = {} THEN 0
    ELSE LET pos == CHOOSE x \in positions : TRUE
         IN  Coerced(items[pos[1]].faults[pos[2]]) + SumAt(items, positions \ {pos})

ExpectedOwners(items) == {OwnerAt(items, pos) : pos \in Contributions(items)}

\* the re-aggregation by (owner, fault), in the form of ContentOf
ExpectedContent(items) ==
    LET all == Contributions(items)
        at(owner) == {pos \in all : OwnerAt(items, pos) = owner}
        names(owner) == {FaultAt(items, pos) : pos \in at(owner)}
    IN  {<<owner,
           SumAt(items, at(owner)),
           {<<name, SumAt(items, {pos \in at(owner) : FaultAt(items, pos) = name})>> :
               name \in names(owner)},
           Cardinality(names(owner))>> : owner \in ExpectedOwners(items)}

\* C12 as claimed: merge never fails on malformed entries, and an entry that is
\* not an object, or whose faults or counts are malformed or not positive,
\* contributes nothing, not even an owner entry: the output is exactly the
\* re-aggregation by (owner, fault) of the well-formed entries with positive counts.
C12_AsClaimed ==
    mergeOut.stage = 2
       => /\ ~mergeOut.raised
          /\ ContentOf(mergeOut.merged) = ExpectedContent(mergeOut.items)
          /\ Len(mergeOut.merged) = Cardinality(ExpectedOwners(mergeOut.items))

\* a summary is well-formed
Distinct(s, Key(_)) == \A i, j \in 1..Len(s) : i # j => Key(s[i]) # Key(s[j])
OwnerOf(entry) == entry.owner
NameOf(fault) == fault.name

WellFormed(summary) ==
    /\ Distinct(summary, OwnerOf)
    /\ \A i \in 1..Len(summary) :
          /\ DOMAIN summary[i] = {"owner", "faults", "total"}
          /\ Distinct(summary[i].faults, NameOf)
          /\ \A j \in 1..Len(summary[i].faults) :
                /\ summary[i].faults[j].count \in Nat
                /\ summary[i].faults[j].count > 0
          /\ summary[i].total = SumCounts(summary[i].faults)
          /\ \A j \in 1..(Len(summary[i].faults) - 1) :
                summary[i].faults[j].count >= summary[i].faults[j + 1].count
    /\ \A i \in 1..(Len(summary) - 1) : summary[i].total >= summary[i + 1].total

\* C13: every summary made by aggregate from a row sequence, every summary made by
\* merge from any entries, and every summary of a stored report has pairwise
\* distinct owners, pairwise distinct fault names within an owner, fault counts
\* that are integers above 0, a total equal to the sum of the fault counts, owners
\* in non-increasing order of total and faults in non-increasing order of count.
C13_SummaryWellFormed ==
    /\ mergeOut.stage >= 1 => WellFormed(mergeOut.analyzed)
    /\ (mergeOut.stage = 2 /\ ~mergeOut.raised) => WellFormed(mergeOut.merged)
    /\ \A r \in reports : WellFormed(r.summary.items)

\* C13 witness: merge has run on the entries of an aggregate followed by malformed
\* entries, and gave two owners of different totals, one of them with two faults
\* of different counts, in another order than the one the owners came in.
C13_Witness ==
    /\ mergeOut.stage = 2
    /\ ~mergeOut.raised
    /\ mergeOut.analyzed # <<>>
    /\ \E i \in 1..Len(entries) : entries[i] \notin {EntryGood}
    /\ Len(mergeOut.merged) >= 2
    /\ mergeOut.merged[1].total > mergeOut.merged[2].total
    /\ mergeOut.merged[1].owner # mergeOut.items[1].owner
    /\ \E i \in 1..Len(mergeOut.merged) :
          /\ Len(mergeOut.merged[i].faults) >= 2
          /\ mergeOut.merged[i].faults[1].count > mergeOut.merged[i].faults[2].count

(***************************************************************************)
(* SpecArchive: find_alarm_csv_in_zip / find_alarm_csv_in_tar on an        *)
(* archive that does not open and on every archive of up to MaxMembers     *)
(* members of MemberSet.                                                   *)
(***************************************************************************)
InitArchive ==
    /\ APP_CONFIG = [archive_backup_enabled |-> TRUE, max_upload_size_mb |-> 1]
    /\ StoreInit
    /\ ProcInit
    /\ rowsA = <<>>
    /\ rowsB = <<>>
    /\ merged = NotMerged
    /\ MergeIdle
    /\ archive \in {[kind |-> "archive", opens |-> TRUE, members |-> members] :
                       members \in SeqsUpTo(MemberSet, MaxMembers)}
                      \cup {ArchiveBroken}
    /\ extracted = NotExtracted

ExtractTarget ==
    /\ extracted.stage = 0
    /\ extracted' = [stage |-> 1, found |-> find_alarm_csv(archive)]
    /\ UNCHANGED <<APP_CONFIG, reports, seq, clock, backups, result, procVars,
                   rowsA, rowsB, merged, entries, mergeOut, archive>>

NextArchive == ExtractTarget

SpecArchive == InitArchive /\ [][NextArchive]_vars

\* the matching entries of an archive and the order the claim gives them, by index
Matching(members) ==
    {i \in 1..Len(members) :
        ~members[i].dir /\ BaseNameLower(members[i].name) = "alarm_local.csv"}

Preferred(members, i, j) ==
    \/ SlashCount(members[i].name) < SlashCount(members[j].name)
    \/ /\ SlashCount(members[i].name) = SlashCount(members[j].name)
       /\ members[i].size < members[j].size
    \/ /\ SlashCount(members[i].name) = SlashCount(members[j].name)
       /\ members[i].size = members[j].size
       /\ i < j

\* C14: among the non-directory entries whose base name is alarm_local.csv in any
\* letter case, extractTarget selects the one with the fewest path separators,
\* then the smallest size, then the earliest place in the archive; it fails with
\* MissingMember when no entry matches and with EmptyMember when the selected
\* entry has no bytes, whatever the other matching entries hold.
C14_SelectsShallowestSmallest ==
    (extracted.stage = 1 /\ archive.opens)
       => LET members == archive.members
              matching == Matching(members)
              selected == CHOOSE i \in matching :
                             \A j \in matching \ {i} : Preferred(members, i, j)
          IN  IF matching = {} THEN extracted.found = Fail("MissingMember")
              ELSE IF members[selected].size = 0
                   THEN extracted.found = Fail("EmptyMember")
                   ELSE /\ extracted.found.ok
                        /\ extracted.found.name = members[selected].name
                        /\ extracted.found.content = members[selected].data

\* C14 witness: the search has returned the first of two matching entries of
\* equal depth and size and different names, from an archive that also holds a
\* matching entry that is deeper and smaller.
C14_Witness ==
    /\ extracted.stage = 1
    /\ archive.opens
    /\ extracted.found.ok
    /\ \E i, j, k \in Matching(archive.members) :
          /\ i < j
          /\ SlashCount(archive.members[i].name) = SlashCount(archive.members[j].name)
          /\ archive.members[i].size = archive.members[j].size
          /\ archive.members[i].name # archive.members[j].name
          /\ extracted.found.name = archive.members[i].name
          /\ extracted.found.content = archive.members[i].data
          /\ SlashCount(archive.members[k].name) > SlashCount(archive.members[i].name)
          /\ archive.members[k].size < archive.members[i].size

(***************************************************************************)
(* SpecConc: two worker processes on one database file.  Python's sqlite3  *)
(* opens a transaction before the first INSERT, UPDATE or DELETE of a      *)
(* connection and not before a SELECT, so every SELECT reads the committed *)
(* database (reports, seq); the first write takes the write lock (writer)  *)
(* and works on tx until commit() or rollback.                             *)
(***************************************************************************)
InitConc ==
    /\ APP_CONFIG = [archive_backup_enabled |-> TRUE, max_upload_size_mb |-> 1]
    /\ StoreInit
    /\ ProcInit
    /\ PureInit

NoTx == Db({}, 0)

Goto(p, label) == pc' = [pc EXCEPT ![p] = label]

\* the connection is closed: the process is ready for the next request
Return(p) ==
    /\ pc' = [pc EXCEPT ![p] = "idle"]
    /\ loc' = [loc EXCEPT ![p] = NoLoc]

\* conn.commit()
Commit ==
    /\ reports' = tx.rows
    /\ seq' = tx.seq
    /\ writer' = 0
    /\ tx' = NoTx

\* the "with" block of the connection rolls back on an exception
Rollback ==
    /\ writer' = 0
    /\ tx' = NoTx
    /\ UNCHANGED <<reports, seq>>

\* process_upload up to the INSERT of analyze_and_store (lines 674-684, 628-642)
BeginIngest(p, upload, identity) ==
    /\ pc[p] = "idle"
    /\ LET filename == normalize_filename(upload.filename)
           a == Analysis(filename, upload.content, identity)
           status == IF upload.size = 0 THEN "EmptyUpload"
                     ELSE IF upload.size > get_max_upload_size_bytes(APP_CONFIG)
                          THEN "FileTooLarge"
                          ELSE IF ~a.ok THEN a.error ELSE "ok"
       IN  IF status # "ok"
           THEN /\ result' = Result("ingest", status, 0, "none", 0, filename)
                /\ UNCHANGED <<pc, loc>>
           ELSE /\ Goto(p, "insert")
                /\ loc' = [loc EXCEPT ![p] = [op |-> "ingest", filename |-> filename,
                                              identity |-> identity, a |-> a,
                                              report_id |-> 0, path |-> NoPath]]
                /\ UNCHANGED result
    /\ UNCHANGED <<APP_CONFIG, reports, seq, clock, backups, writer, tx, pureVars>>

\* the INSERT committed at once, as on a connection in autocommit mode
InsertAutocommit(p) ==
    /\ pc[p] = "insert"
    /\ writer = 0
    /\ seq < MaxId
    /\ LET inserted == InsertNormal(Db(reports, seq), loc[p].a, clock)
       IN  /\ tx' = inserted
           /\ reports' = inserted.rows
           /\ seq' = inserted.seq
           /\ loc' = [loc EXCEPT ![p].report_id = inserted.seq]
    /\ writer' = p
    /\ Goto(p, "backup")
    /\ UNCHANGED <<APP_CONFIG, clock, backups, result, pureVars>>

\* lines 643-658: the INSERT opens the transaction
Insert(p) ==
    /\ pc[p] = "insert"
    /\ writer = 0
    /\ seq < MaxId
    /\ LET inserted == InsertNormal(Db(reports, seq), loc[p].a, clock)
       IN  /\ tx' = inserted
           /\ loc' = [loc EXCEPT ![p].report_id = inserted.seq]
    /\ writer' = p
    /\ Goto(p, "backup")
    /\ UNCHANGED <<APP_CONFIG, reports, seq, clock, backups, result, pureVars>>

\* line 659: backup_archive returns
Backup(p) ==
    /\ pc[p] = "backup"
    /\ LET path == backup_archive(APP_CONFIG, loc[p].filename, loc[p].identity,
                                  loc[p].report_id, clock)
       IN  /\ backups' = IF path = NoPath THEN backups ELSE backups \cup {path}
           /\ loc' = [loc EXCEPT ![p].path = path]
    /\ Goto(p, "patch")
    /\ UNCHANGED <<APP_CONFIG, reports, seq, clock, result, writer, tx, pureVars>>

\* line 659: backup_archive raises (mkdir or write_bytes fails)
BackupFails(p) ==
    /\ pc[p] = "backup"
    /\ backup_archive(APP_CONFIG, loc[p].filename, loc[p].identity,
                      loc[p].report_id, clock) # NoPath
    /\ Rollback
    /\ Return(p)
    /\ result' = Result("ingest", "InternalError", 0, "failed", 0, loc[p].filename)
    /\ UNCHANGED <<APP_CONFIG, clock, backups, pureVars>>

\* lines 660-664: the UPDATE of raw_data
Patch(p) ==
    /\ pc[p] = "patch"
    /\ tx' = PatchRawData(tx, loc[p].report_id, loc[p].path)
    /\ Goto(p, "commit")
    /\ UNCHANGED <<APP_CONFIG, reports, seq, clock, backups, result, loc, writer, pureVars>>

\* lines 665-670: commit and read the report back
CommitIngest(p) ==
    /\ pc[p] = "commit"
    /\ Commit
    /\ Return(p)
    /\ result' = Result("ingest",
                        IF HasReport(tx.rows, loc[p].report_id)
                        THEN "ok" ELSE "StoreInconsistency",
                        loc[p].report_id,
                        IF loc[p].path = NoPath THEN "none" ELSE "written",
                        0, loc[p].filename)
    /\ UNCHANGED <<APP_CONFIG, clock, backups, pureVars>>

\* create_latest_aggregate_report, lines 505-530
BeginRebuild(p) ==
    /\ pc[p] = "idle"
    /\ LET latest_rows == get_latest_reports_for_each_uploader(reports)
       IN  IF latest_rows = <<>>
           THEN /\ result' = Result("rebuild", "NoReportsAvailable", 0, "none", 0, "")
                /\ UNCHANGED <<pc, loc>>
           ELSE /\ Goto(p, "agg_select")
                /\ loc' = [loc EXCEPT ![p] = [op |-> "rebuild",
                                              fields |-> AggregateFields(latest_rows),
                                              existing_rows |-> <<>>,
                                              report_id |-> 0]]
                /\ UNCHANGED result
    /\ UNCHANGED <<APP_CONFIG, reports, seq, clock, backups, writer, tx, pureVars>>

\* lines 531-539: SELECT the ids of the aggregate rows
SelectExisting(p) ==
    /\ pc[p] = "agg_select"
    /\ loc' = [loc EXCEPT ![p].existing_rows = ExistingAggregateIds(reports)]
    /\ Goto(p, "agg_write")
    /\ UNCHANGED <<APP_CONFIG, reports, seq, clock, backups, result, writer, tx, pureVars>>

\* lines 541-566 and 576-591: the UPDATE or the INSERT opens the transaction
WriteAggregateRow(p) ==
    /\ pc[p] = "agg_write"
    /\ writer = 0
    /\ loc[p].existing_rows = <<>> => seq < MaxId
    /\ tx' = WriteAggregate(Db(reports, seq), loc[p].existing_rows, loc[p].fields, clock)
    /\ loc' = [loc EXCEPT ![p].report_id = AggregateId(Db(reports, seq), loc[p].existing_rows)]
    /\ writer' = p
    /\ Goto(p, "agg_delete")
    /\ UNCHANGED <<APP_CONFIG, reports, seq, clock, backups, result, pureVars>>

\* lines 568-574: DELETE the extra aggregate rows
DeleteExtraRows(p) ==
    /\ pc[p] = "agg_delete"
    /\ tx' = DeleteExtras(tx, loc[p].existing_rows)
    /\ Goto(p, "agg_commit")
    /\ UNCHANGED <<APP_CONFIG, reports, seq, clock, backups, result, loc, writer, pureVars>>

\* lines 593-597: commit and read the aggregate back
CommitRebuild(p) ==
    /\ pc[p] = "agg_commit"
    /\ Commit
    /\ Return(p)
    /\ result' = Result("rebuild",
                        IF HasReport(tx.rows, loc[p].report_id)
                        THEN "ok" ELSE "StoreInconsistency",
                        loc[p].report_id, "none",
                        IF result.op = "rebuild" /\ result.status = "ok" THEN 2 ELSE 1,
                        "")
    /\ UNCHANGED <<APP_CONFIG, clock, backups, pureVars>>

\* the first write of a request finds the write lock held until the busy timeout:
\* sqlite3.OperationalError, database is locked
Locked(p) ==
    /\ pc[p] \in {"insert", "agg_write"}
    /\ writer \notin {0, p}
    /\ Return(p)
    /\ result' = Result(loc[p].op, "InternalError", 0, "none", 0, "")
    /\ UNCHANGED <<APP_CONFIG, reports, seq, clock, backups, writer, tx, pureVars>>

\* a request is cut off inside its transaction (the worker dies or the handler
\* raises): the transaction is rolled back
Abort(p) ==
    /\ pc[p] \in {"backup", "patch", "commit", "agg_delete", "agg_commit"}
    /\ Rollback
    /\ Return(p)
    /\ result' = Result(loc[p].op, "Aborted", loc[p].report_id, "none", 0, "")
    /\ UNCHANGED <<APP_CONFIG, clock, backups, pureVars>>

\* delete_report: one DELETE and its commit, when no other connection writes
DeleteConc(report_id) ==
    /\ writer = 0
    /\ delete_report(report_id)

\* the requests of SpecConc fall within one second: clock stays as it is
NextConc ==
    \/ \E p \in Procs, request \in ConcRequests : BeginIngest(p, request[1], request[2])
    \/ \E p \in Procs : Insert(p)
    \/ \E p \in Procs : Backup(p)
    \/ \E p \in Procs : BackupFails(p)
    \/ \E p \in Procs : Patch(p)
    \/ \E p \in Procs : CommitIngest(p)
    \/ \E p \in Procs : BeginRebuild(p)
    \/ \E p \in Procs : SelectExisting(p)
    \/ \E p \in Procs : WriteAggregateRow(p)
    \/ \E p \in Procs : DeleteExtraRows(p)
    \/ \E p \in Procs : CommitRebuild(p)
    \/ \E p \in Procs : Locked(p)
    \/ \E p \in Procs : Abort(p)
    \/ \E report_id \in 1..MaxId : DeleteConc(report_id)

SpecConc == InitConc /\ [][NextConc]_vars

(***************************************************************************)
(* Properties of concurrent requests (SpecConc).                           *)
(***************************************************************************)
\* C2 as claimed: with two rebuildLatestAggregate requests interleaving, no
\* committed state of the store holds two aggregate-typed records.
C2_AsClaimed == Cardinality(Aggregates(reports)) <= 1

\* the UPDATE of raw_data has been applied to a row: its backup path is set exactly
\* when the upload is an archive and backups are enabled
Patched(r) ==
    (r.raw_data.archive_backup_path # NoPath)
       <=> (is_archive_filename(r.filename) /\ APP_CONFIG.archive_backup_enabled)

InTransaction(p) == pc[p] \in {"backup", "patch", "commit"}

\* C7: the INSERT and the UPDATE of ingestUpload are committed together: while a
\* request is between its INSERT and its commit no row with its id is in the
\* committed database that every reader reads, every committed normal report has
\* its raw_data patched, and a request cut off inside its transaction leaves no
\* row with the id it had inserted.
C7_IngestIsAtomic ==
    /\ \A p \in Procs : InTransaction(p) => ~HasReport(reports, loc[p].report_id)
    /\ \A r \in Normals(reports) : Patched(r)
    /\ (result.op = "ingest" /\ result.status = "Aborted")
          => ~HasReport(reports, result.id)

\* C7 witness: one process is between the INSERT and the UPDATE of an archive
\* upload, its backup file written, while the other has read the latest reports
\* for a rebuild and is about to read the aggregate rows.
C7_Witness ==
    \E p, q \in Procs :
       /\ pc[p] = "patch"
       /\ loc[p].path # NoPath
       /\ pc[q] = "agg_select"
       /\ reports # {}

\* the ids a rebuild has read from the store
FoundIds(p) == {loc[p].existing_rows[i] : i \in 1..Len(loc[p].existing_rows)}

\* process p commits a rebuild that answers with success
RebuildCommits(p) ==
    /\ pc[p] = "agg_commit"
    /\ pc'[p] = "idle"
    /\ result'.op = "rebuild"
    /\ result'.status = "ok"

\* C15: self-healing upsert: when a rebuildLatestAggregate that read n >= 2
\* aggregate-typed records from the store succeeds, the store then holds exactly
\* one aggregate-typed record; it is the one that had the lowest id, its filename,
\* timestamp, summary and raw_data are the ones this rebuild computed, its
\* identity fields are user "system" with null uid and null ip, and every other
\* aggregate-typed record it read is deleted.
C15_SelfHealing ==
    [][\A p \in Procs :
          (RebuildCommits(p) /\ Len(loc[p].existing_rows) >= 2)
             => /\ Cardinality(Aggregates(reports')) = 1
                /\ \A a \in Aggregates(reports') :
                      /\ a.id \in FoundIds(p)
                      /\ \A other \in FoundIds(p) : a.id <= other
                      /\ a.id = result'.id
                      /\ a.filename = AGGREGATE_REPORT_FILENAME
                      /\ a.created_at = clock
                      /\ a.summary = loc[p].fields.summary
                      /\ a.raw_data = loc[p].fields.raw_data
                      /\ a.uploader_user = "system"
                      /\ a.uploader_uid = NULL_UID
                      /\ a.uploader_ip = NULL
                      /\ \A other \in FoundIds(p) \ {a.id} : other \notin Ids(reports')]_vars

\* C15 witness: the store holds two aggregate-typed records, and a rebuild that
\* read both has rewritten the lower one and deleted the other in its
\* transaction, which it is about to commit.
C15_Witness ==
    \E p \in Procs :
       /\ pc[p] = "agg_commit"
       /\ Len(loc[p].existing_rows) = 2
       /\ AggregateIds(reports) = FoundIds(p)
       /\ Cardinality(Aggregates(reports)) = 2
       /\ AggregateIds(tx.rows) = {loc[p].existing_rows[1]}
       /\ loc[p].existing_rows[2] \notin Ids(tx.rows)
       /\ Normals(tx.rows) # {}

====
